---- MODULE Spec2Model ----
(***************************************************************************)
(* Model of parser/bill_parser.py: the bill reconciliation engine.         *)
(*                                                                         *)
(* The persistent store (Bill, Cosponsor, RelatedBill, the bill/committee  *)
(* and bill/term relations, BillTerm and its subterm relation, the File    *)
(* change records), the files on disk, the two process-lifetime caches and *)
(* the position of main in its loop over the bill files are the state.     *)
(* One action is the start of a run of main with its term phase and the    *)
(* selection of the bill files (Start), one iteration of main's loop over  *)
(* the bill files (MainFile), the end of the run with the two schedules    *)
(* main reads after the loop (Finish), the start of a new process          *)
(* (LoadModule), or a change of the input files or of the store between    *)
(* two runs (EditFile, EditText, EditTaxonomy, DropBill).                  *)
(*                                                                         *)
(* Conventions.  An XML attribute that may be absent is a sequence of      *)
(* length 0 (absent, lxml's None) or 1 (present).  Numeric attribute text  *)
(* is a sequence of decimal digits; other text is a string, and a term     *)
(* name is a sequence of one-character strings.  A raised exception is the *)
(* field err of the context record: "" while none is pending.              *)
(***************************************************************************)
EXTENDS Integers, Sequences, FiniteSets, TLC

VARIABLES
    bills,            \* Bill table: set of rows
    bill_committees,  \* Bill.committees relation: set of <<bill id, code>>
    bill_terms,       \* Bill.terms relation: set of <<bill id, term id>>
    cosponsors,       \* Cosponsor table: set of rows
    relatedbills,     \* RelatedBill table: set of rows
    billterms,        \* BillTerm table: set of rows
    subterms,         \* BillTerm.subterms relation: set of <<term id, subterm id>>
    taxonomy,         \* taxonomy files: index of their content in TaxPool
    filerecs,         \* File table (ChangeRecord): path -> stored signature
    disk,             \* bill files: path -> index of the document in DocPool
    textdisk,         \* full-text files: path -> version, 0 when absent
    PERSON_CACHE,     \* global PERSON_CACHE: set of cached Person pks
    TERM_CACHE,       \* global TERM_CACHE: set of [term_type, name, id]
    run,              \* main: phase, files left, options
    last              \* what the last step of main did (observation only)

vars == <<bills, bill_committees, bill_terms, cosponsors, relatedbills,
          billterms, subterms, taxonomy, filerecs, disk, textdisk,
          PERSON_CACHE, TERM_CACHE, run, last>>

None == <<>>
Some(v) == <<v>>

----------------------------------------------------------------------------
(* Conversions *)

RECURSIVE int(_)
\* Python int() on decimal text.
int(s) == IF Len(s) = 0 THEN 0
          ELSE 10 * int(SubSeq(s, 1, Len(s) - 1)) + s[Len(s)]

Lower(ch) ==
    CASE ch = "A" -> "a"
      [] ch = "B" -> "b"
      [] ch = "T" -> "t"
      [] ch = "X" -> "x"
      [] OTHER -> ch

IsSpace(ch) == ch \in {" ", "\t"}

RECURSIVE SpaceRun(_)
\* Length of the run of whitespace that starts the text.
SpaceRun(s) == IF Len(s) > 0 /\ IsSpace(s[1]) THEN 1 + SpaceRun(Tail(s)) ELSE 0

RECURSIVE SquashSpaces(_)
\* re.sub(r'\s{2,}', ' ', name): every run of two or more whitespace
\* characters becomes one blank; a single whitespace character stays.
SquashSpaces(s) ==
    IF Len(s) = 0 THEN s
    ELSE IF SpaceRun(s) >= 2
         THEN <<" ">> \o SquashSpaces(SubSeq(s, SpaceRun(s) + 1, Len(s)))
         ELSE <<s[1]>> \o SquashSpaces(Tail(s))

normalize_name(name) ==
    LET squashed == SquashSpaces(name)
    IN  [i \in 1..Len(squashed) |-> Lower(squashed[i])]

----------------------------------------------------------------------------
(* Reference data and code tables of the collaborating applications *)

\* Person table (person.models.Person): the pks that exist.
Persons == {1, 2}

\* Committee table (committee.models.Committee): the codes that exist.
Committees == {"HSAG", "SSFI"}

\* Person.get_role_at_date: the role the person holds at the date.
get_role_at_date(person, date) == <<"role", person, date>>

\* BillType.by_xml_code: the fixed table of bill type codes.
BillType_by_xml_code(code) ==
    CASE code = "h" -> "house_bill"
      [] code = "s" -> "senate_bill"
      [] code = "hr" -> "house_resolution"
      [] OTHER -> "unknown"

\* BillStatus.by_xml_code: the fixed status vocabulary.
BillStatus_by_xml_code(code) ==
    CASE code = "INTRODUCED" -> "introduced"
      [] code = "REFERRED" -> "referred"
      [] code = "REPORTED" -> "reported"
      [] OTHER -> "unknown"

\* Processor.parse_datetime: the instant a date text denotes (day number).
parse_datetime(value) ==
    CASE value = "2009-01-06" -> 1
      [] value = "2009-02-10" -> 2
      [] value = "2009-03-15" -> 3
      [] OTHER -> 0

\* bill.title.get_primary_bill_title: a deterministic choice among the
\* titles: the first short title, else the first title, else no title.
get_primary_bill_title(titles) ==
    LET shorts == {i \in 1..Len(titles) : titles[i][1] = Some("short")}
        first(S) == CHOOSE i \in S : \A j \in S : i <= j
    IN  IF shorts # {} THEN titles[first(shorts)][3]
        ELSE IF Len(titles) > 0 THEN titles[1][3]
        ELSE None

\* get_term: congresses from this one on use the new term classification.
NewTermCongress == 111

----------------------------------------------------------------------------
(* The reference caches *)

\* get_person(pk): the cached Person, or the exception the lookup raises.
\* int(None) raises TypeError before the cache is touched; the cache is
\* loaded in full when it is empty; a pk that is not in it raises KeyError.
get_person(cache, pk) ==
    IF pk = None
    THEN [cache |-> cache, exc |-> "TypeError", person |-> 0]
    ELSE IF Len(pk[1]) = 0
    THEN [cache |-> cache, exc |-> "ValueError", person |-> 0]
    ELSE LET loaded == IF cache = {} THEN Persons ELSE cache
         IN  IF int(pk[1]) \in loaded
             THEN [cache |-> loaded, exc |-> "", person |-> int(pk[1])]
             ELSE [cache |-> loaded, exc |-> "KeyError", person |-> 0]

\* The dictionary get_term builds from BillTerm.objects.all(): one entry per
\* (term_type, normalized name); of two terms with the same key the one
\* read last (the larger id) stays.
LoadTermCache(terms) ==
    {[term_type |-> t.term_type, name |-> normalize_name(t.name), id |-> t.id] :
        t \in {u \in terms :
                 \A w \in terms :
                    (w.term_type = u.term_type
                     /\ normalize_name(w.name) = normalize_name(u.name))
                    => w.id <= u.id}}

\* get_term(name, congress): the cached term of the classification the
\* congress selects, or KeyError.
get_term(cache, terms, name, congress) ==
    LET loaded == IF cache = {} THEN LoadTermCache(terms) ELSE cache
        ttype == IF congress >= NewTermCongress THEN "new" ELSE "old"
        hits == {e \in loaded : e.term_type = ttype /\ e.name = normalize_name(name)}
    IN  IF hits = {}
        THEN [cache |-> loaded, exc |-> "KeyError", term |-> 0]
        ELSE [cache |-> loaded, exc |-> "", term |-> (CHOOSE e \in hits : TRUE).id]

----------------------------------------------------------------------------
(* The context a reconciliation runs in: the object being built, the       *)
(* tables it writes, the caches, the calls made so far, the exception      *)
(* raised.                                                                 *)

\* Bill(): a new object, every field at its default, not yet saved (id 0).
NewBill ==
    [id |-> 0, congress |-> 0, bill_type |-> "", number |-> 0,
     titles |-> <<>>, title |-> None,
     introduced_date |-> 0, sponsor |-> None, sponsor_role |-> None,
     current_status_date |-> 0, current_status |-> "",
     major_actions |-> <<>>,
     docs_house_gov_postdate |-> None,
     senate_floor_schedule_postdate |-> None]

Ev(op, a, b) == [op |-> op, a |-> a, b |-> b]

Raise(c, e) == [c EXCEPT !.err = e]
Emit(c, ev) == [c EXCEPT !.effects = Append(@, ev)]

\* An exception is pending: the statements that follow do not run.
Raised(c) == c.err # ""

\* The element of a one-element set.  {F(x) : x \in {e}} computes e once.
Value(S) == CHOOSE x \in S : TRUE

MaxId(rows) == IF rows = {} THEN 0 ELSE CHOOSE n \in {r.id : r \in rows} :
                                            \A r \in rows : r.id <= n

SameKey(b, congress, bill_type, number) ==
    b.congress = congress /\ b.bill_type = bill_type /\ b.number = number

\* Model.save(): an object without id is inserted under the next id, an
\* object with an id replaces the row of that id.
Bill_save(c) ==
    LET o == IF c.obj.id = 0 THEN [c.obj EXCEPT !.id = MaxId(c.bills) + 1]
             ELSE c.obj
    IN  Emit([c EXCEPT !.obj = o,
                       !.bills = {b \in c.bills : b.id # o.id} \cup {o}],
             Ev("Bill.save", o.id, c.obj.id = 0))

----------------------------------------------------------------------------
(* BillProcessor *)

\* Processor.process with BillProcessor's schema: the required attributes
\* type, session, number in this order, each converted by its handler
\* (type_handler, session_handler, number_handler) and stored under its
\* mapped field.  A missing one raises the mapping error.
Processor_process(c, node) ==
    IF node.type = None \/ node.session = None \/ node.number = None
    THEN Raise(c, "InvalidNode")
    ELSE [c EXCEPT !.obj.bill_type = BillType_by_xml_code(node.type[1]),
                   !.obj.congress = int(node.session[1]),
                   !.obj.number = int(node.number[1])]

process_titles(c, node) ==
    LET titles == [i \in 1..Len(node.titles) |->
                     <<node.titles[i].type, node.titles[i].as, node.titles[i].text>>]
    IN  [c EXCEPT !.obj.titles = titles,
                  !.obj.title = get_primary_bill_title(titles)]

process_introduced(c, node) ==
    IF Len(node.introduced) = 0
    THEN Raise(c, "IndexError")
    ELSE [c EXCEPT !.obj.introduced_date = parse_datetime(node.introduced[1].datetime)]

\* The try block catches IndexError (no sponsor node) and TypeError (no id
\* attribute); any other exception of get_person leaves process_sponsor.
process_sponsor(c, node) ==
    IF Len(node.sponsor) = 0
    THEN [c EXCEPT !.obj.sponsor = None]
    ELSE LET r == get_person(c.PERSON_CACHE, node.sponsor[1].id)
             c1 == [c EXCEPT !.PERSON_CACHE = r.cache]
         IN  IF r.exc = ""
             THEN [c1 EXCEPT !.obj.sponsor = Some(r.person),
                             !.obj.sponsor_role =
                                 Some(get_role_at_date(r.person, c.obj.introduced_date))]
             ELSE IF r.exc \in {"IndexError", "TypeError"}
             THEN [c1 EXCEPT !.obj.sponsor = None]
             ELSE Raise(c1, r.exc)

process_current_status(c, node) ==
    IF Len(node.state) = 0
    THEN Raise(c, "IndexError")
    ELSE [c EXCEPT !.obj.current_status_date = parse_datetime(node.state[1].datetime),
                   !.obj.current_status = BillStatus_by_xml_code(node.state[1].text)]

\* Mutation of resolve_identity_and_save: the lookup by natural key is left
\* out and the object is always saved as a new one.
save_without_lookup(c, node) == Bill_save(c)

\* Lines 72-78: adopt the id of the Bill stored under the natural key, if
\* there is one, then save.
resolve_identity_and_save(c, node) ==
    LET found == {b \in c.bills :
                    SameKey(b, c.obj.congress, c.obj.bill_type, c.obj.number)}
    IN  IF Cardinality(found) > 1
        THEN Raise(c, "MultipleObjectsReturned")
        ELSE IF found = {}
        THEN Bill_save(c)
        ELSE Bill_save([c EXCEPT !.obj.id = (CHOOSE b \in found : TRUE).id])

RECURSIVE committee_loop(_, _, _)
\* The codes of process_committees' comlist from element i on, and the
\* codes its log.error reports.
committee_loop(node, i, acc) ==
    IF i > Len(node.committees) THEN acc
    ELSE LET code == node.committees[i].code
         IN  IF code = Some("")
             THEN committee_loop(node, i + 1, acc)
             ELSE IF code # None /\ code[1] \in Committees
             THEN committee_loop(node, i + 1,
                                 [acc EXCEPT !.comlist = Append(@, code[1])])
             ELSE committee_loop(node, i + 1,
                                 [acc EXCEPT !.errors = Append(@, code)])

process_committees(c, node) ==
    LET r == committee_loop(node, 1, [comlist |-> <<>>, errors |-> <<>>])
        coms == {r.comlist[i] : i \in 1..Len(r.comlist)}
        c1 == [c EXCEPT !.effects =
                  @ \o [i \in 1..Len(r.errors) |->
                           Ev("log.error", "committee", r.errors[i])]]
    IN  Emit([c1 EXCEPT !.bill_committees =
                  {x \in @ : x[1] # c.obj.id} \cup {<<c.obj.id, k>> : k \in coms}],
             Ev("Bill.committees.set", c.obj.id, coms))

RECURSIVE term_loop(_, _, _, _)
\* process_terms' loop from element i on: the term ids of termlist, the
\* names log.error reports, and TERM_CACHE as the lookups leave it.
term_loop(node, congress, i, acc) ==
    IF i > Len(node.subjects) THEN acc
    ELSE LET r == get_term(acc.cache, billterms, node.subjects[i].name, congress)
         IN  IF r.exc = ""
             THEN term_loop(node, congress, i + 1,
                            [acc EXCEPT !.cache = r.cache,
                                        !.termlist = Append(@, r.term)])
             ELSE term_loop(node, congress, i + 1,
                            [acc EXCEPT !.cache = r.cache,
                                        !.errors = Append(@, node.subjects[i].name)])

\* Mutation of process_terms: the resolved terms are added to the bill's
\* terms instead of replacing them.
process_terms_add(c, node) ==
    LET r == term_loop(node, c.obj.congress, 1,
                       [cache |-> c.TERM_CACHE, termlist |-> <<>>, errors |-> <<>>])
        ts == {r.termlist[i] : i \in 1..Len(r.termlist)}
    IN  Emit([c EXCEPT !.TERM_CACHE = r.cache,
                       !.bill_terms = @ \cup {<<c.obj.id, t>> : t \in ts}],
             Ev("Bill.terms.set", c.obj.id, ts))

process_terms(c, node) ==
    LET r == term_loop(node, c.obj.congress, 1,
                       [cache |-> c.TERM_CACHE, termlist |-> <<>>, errors |-> <<>>])
        ts == {r.termlist[i] : i \in 1..Len(r.termlist)}
        c1 == [c EXCEPT !.TERM_CACHE = r.cache,
                        !.effects =
                            @ \o [i \in 1..Len(r.errors) |->
                                     Ev("log.error", "term", r.errors[i])]]
    IN  Emit([c1 EXCEPT !.bill_terms =
                  {x \in @ : x[1] # c.obj.id} \cup {<<c.obj.id, t>> : t \in ts}],
             Ev("Bill.terms.set", c.obj.id, ts))

\* Mutation of cosponsor_body: the row is saved whether or not joined or
\* withdrawn differ.
cosponsor_body_always_save(c, sub) ==
    LET r == get_person(c.PERSON_CACHE, sub.id)
        c1 == [c EXCEPT !.PERSON_CACHE = r.cache]
    IN  IF r.exc = "IndexError" THEN c1
        ELSE IF r.exc # "" THEN Raise(c1, r.exc)
        ELSE
        LET joined == parse_datetime(sub.joined)
            withdrawn == IF sub.withdrawn # None /\ sub.withdrawn # Some("")
                         THEN Some(parse_datetime(sub.withdrawn[1])) ELSE None
            found == {x \in c1.cosponsors :
                        x.person = r.person /\ x.bill = c1.obj.id}
            isnew == found = {}
            ob == IF isnew
                  THEN [id |-> MaxId(c1.cosponsors) + 1,
                        person |-> r.person, bill |-> c1.obj.id,
                        joined |-> joined, withdrawn |-> withdrawn,
                        role |-> get_role_at_date(r.person, joined)]
                  ELSE CHOOSE x \in found : TRUE
            c2 == IF isnew
                  THEN Emit([c1 EXCEPT !.cosponsors = @ \cup {ob}],
                            Ev("Cosponsor.create", <<ob.person, ob.bill>>,
                               <<joined, withdrawn>>))
                  ELSE c1
        IN  Emit([c2 EXCEPT !.cosponsors =
                      (@ \ {ob}) \cup {[ob EXCEPT !.joined = joined,
                                                   !.withdrawn = withdrawn]}],
                 Ev("Cosponsor.save", <<ob.person, ob.bill>>,
                    <<<<ob.joined, ob.withdrawn>>, <<joined, withdrawn>>>>))

\* One pass of process_consponsors' loop body, for element sub.  Only
\* IndexError of get_person is caught (and the element passed over).
\* get_or_create returns the row of (person, bill) or inserts one with the
\* defaults; the row is saved again only when joined or withdrawn differ.
cosponsor_body(c, sub) ==
    LET r == get_person(c.PERSON_CACHE, sub.id)
        c1 == [c EXCEPT !.PERSON_CACHE = r.cache]
    IN  IF r.exc = "IndexError" THEN c1
        ELSE IF r.exc # "" THEN Raise(c1, r.exc)
        ELSE
        LET joined == parse_datetime(sub.joined)
            withdrawn == IF sub.withdrawn # None /\ sub.withdrawn # Some("")
                         THEN Some(parse_datetime(sub.withdrawn[1])) ELSE None
            found == {x \in c1.cosponsors :
                        x.person = r.person /\ x.bill = c1.obj.id}
        IN  IF Cardinality(found) > 1
            THEN Raise(c1, "MultipleObjectsReturned")
            ELSE
            LET isnew == found = {}
                ob == IF isnew
                      THEN [id |-> MaxId(c1.cosponsors) + 1,
                            person |-> r.person, bill |-> c1.obj.id,
                            joined |-> joined, withdrawn |-> withdrawn,
                            role |-> get_role_at_date(r.person, joined)]
                      ELSE CHOOSE x \in found : TRUE
                c2 == IF isnew
                      THEN Emit([c1 EXCEPT !.cosponsors = @ \cup {ob}],
                                Ev("Cosponsor.create", <<ob.person, ob.bill>>,
                                   <<joined, withdrawn>>))
                      ELSE c1
            IN  IF ob.joined # joined \/ ob.withdrawn # withdrawn
                THEN Emit([c2 EXCEPT !.cosponsors =
                              (@ \ {ob}) \cup {[ob EXCEPT !.joined = joined,
                                                           !.withdrawn = withdrawn]}],
                          Ev("Cosponsor.save", <<ob.person, ob.bill>>,
                             <<<<ob.joined, ob.withdrawn>>, <<joined, withdrawn>>>>))
                ELSE c2

RECURSIVE cosponsor_loop(_, _, _)
cosponsor_loop(c, node, i) ==
    IF i > Len(node.cosponsors) \/ Raised(c) THEN c
    ELSE Value({cosponsor_loop(x, node, i + 1) :
                   x \in {cosponsor_body(c, node.cosponsors[i])}})

\* Mutation of process_consponsors: the rows of the bill are deleted before
\* the cosponsors of the document are entered.
process_consponsors_replace(c, node) ==
    cosponsor_loop([c EXCEPT !.cosponsors = {x \in @ : x.bill # c.obj.id}], node, 1)

process_consponsors(c, node) == cosponsor_loop(c, node, 1)

RECURSIVE relatedbill_loop(_, _, _)
\* process_relatedbills' loop from element i on: a reference to a Bill that
\* is not stored is passed over, any other becomes a row.  n orders the
\* rows of one bill as their ids do.
relatedbill_loop(c, node, i) ==
    IF i > Len(node.relatedbills) THEN c
    ELSE LET sub == node.relatedbills[i]
             found == {b \in c.bills :
                         SameKey(b, int(sub.session),
                                 BillType_by_xml_code(sub.type), int(sub.number))}
         IN  IF Cardinality(found) > 1 THEN Raise(c, "MultipleObjectsReturned")
             ELSE IF found = {} THEN relatedbill_loop(c, node, i + 1)
             ELSE LET row == [bill |-> c.obj.id,
                              related_bill |-> (CHOOSE b \in found : TRUE).id,
                              relation |-> sub.relation,
                              n |-> Cardinality({x \in c.relatedbills :
                                                   x.bill = c.obj.id}) + 1]
                  IN  relatedbill_loop(
                          Emit([c EXCEPT !.relatedbills = @ \cup {row}],
                               Ev("RelatedBill.create", c.obj.id, row.related_bill)),
                          node, i + 1)

\* Mutation of process_relatedbills: the rows of the bill are not deleted
\* before the document's are created.
process_relatedbills_keep(c, node) == relatedbill_loop(c, node, 1)

\* Mutation of process_relatedbills: the rows of the bill are deleted after
\* the document's are created.
process_relatedbills_delete_last(c, node) ==
    Value({Emit([r EXCEPT !.relatedbills = {x \in @ : x.bill # c.obj.id}],
                Ev("RelatedBill.delete", c.obj.id, None)) :
             r \in {relatedbill_loop(c, node, 1)}})

process_relatedbills(c, node) ==
    relatedbill_loop(
        Emit([c EXCEPT !.relatedbills = {x \in @ : x.bill # c.obj.id}],
             Ev("RelatedBill.delete", c.obj.id, None)),
        node, 1)

\* One statement of BillProcessor.process.
statement(name, c, node) ==
    CASE name = "super.process" -> Processor_process(c, node)
      [] name = "process_titles" -> process_titles(c, node)
      [] name = "process_introduced" -> process_introduced(c, node)
      [] name = "process_sponsor" -> process_sponsor(c, node)
      [] name = "process_current_status" -> process_current_status(c, node)
      [] name = "get id, save" -> resolve_identity_and_save(c, node)
      [] name = "process_committees" -> process_committees(c, node)
      [] name = "process_terms" -> process_terms(c, node)
      [] name = "process_consponsors" -> process_consponsors(c, node)
      [] name = "process_relatedbills" -> process_relatedbills(c, node)

RECURSIVE statements(_, _, _)
\* The statements run in order, up to the first that raises.
statements(names, c, node) ==
    IF Len(names) = 0 \/ Raised(c) THEN c
    ELSE Value({statements(Tail(names), x, node) :
                   x \in {statement(Head(names), c, node)}})

\* Mutation of process: the bill is saved before its status is read.
process_save_early(c, node) ==
    statements(<<"super.process", "process_titles", "process_introduced",
                 "process_sponsor", "get id, save", "process_current_status",
                 "process_committees", "process_terms", "process_consponsors",
                 "process_relatedbills">>, c, node)

\* BillProcessor.process
process(c, node) ==
    statements(<<"super.process", "process_titles", "process_introduced",
                 "process_sponsor", "process_current_status", "get id, save",
                 "process_committees", "process_terms", "process_consponsors",
                 "process_relatedbills">>, c, node)

----------------------------------------------------------------------------
(* Files *)

BillFiles == {"data/us/111/bills/h1.xml", "data/us/110/bills/s2.xml"}

\* re.search(r"/(\d+)/bills/([a-z]+)(\d+)\.xml$", fname): the three groups.
path_groups(fname) ==
    CASE fname = "data/us/111/bills/h1.xml" ->
            [congress |-> <<1, 1, 1>>, type |-> "h", number |-> <<1>>]
      [] fname = "data/us/110/bills/s2.xml" ->
            [congress |-> <<1, 1, 0>>, type |-> "s", number |-> <<2>>]

\* "data/us/bills.text/%s/%s/%s%s.txt" of the groups of the bill file.
textfile(fname) ==
    CASE fname = "data/us/111/bills/h1.xml" -> "data/us/bills.text/111/h/h1.txt"
      [] fname = "data/us/110/bills/s2.xml" -> "data/us/bills.text/110/s/s2.txt"

TextFiles == {textfile(f) : f \in BillFiles}

\* The content signature File compares: of a bill file the document it
\* holds, of a text file its version.
Signature(path) ==
    IF path \in BillFiles THEN disk[path]
    ELSE textdisk[CHOOSE f \in BillFiles : textfile(f) = path]

\* File.objects.is_changed(path): no record, or another signature stored.
is_changed(path) == filerecs[path] # Signature(path)

\* File.objects.save_file(path): store the current signature.
save_file(recs, path) == [recs EXCEPT ![path] = Signature(path)]

----------------------------------------------------------------------------
(* Documents.  A bill file holds one document with root element bill. *)

\* The BillTerm rows stored when the first run starts.
InitialTerms ==
    {[id |-> 1, term_type |-> "new", name |-> <<"T", "a", "x">>],
     [id |-> 2, term_type |-> "old", name |-> <<"T", "a", "x">>],
     [id |-> 3, term_type |-> "new", name |-> <<"T", "a", "x", " ", "B">>]}

H1 ==
    [type |-> Some("h"), session |-> Some(<<1, 1, 1>>), number |-> Some(<<1>>),
     introduced |-> <<[datetime |-> "2009-01-06"]>>,
     state |-> <<[datetime |-> "2009-02-10", text |-> "REFERRED"]>>,
     titles |-> <<[type |-> Some("official"), as |-> Some("introduced"),
                   text |-> Some("An Act")]>>,
     sponsor |-> <<[id |-> Some(<<1>>)]>>,
     cosponsors |-> <<[id |-> Some(<<2>>), joined |-> "2009-01-06",
                       withdrawn |-> None]>>,
     committees |-> <<[code |-> Some("HSAG")]>>,
     subjects |-> <<[name |-> <<"T", "a", "x">>]>>,
     relatedbills |-> <<[session |-> <<1, 1, 0>>, type |-> "s", number |-> <<2>>,
                         relation |-> "identical"]>>,
     actions |-> <<[datetime |-> "2009-01-06", state |-> Some("INTRODUCED"),
                    text |-> "Introduced"],
                   [datetime |-> "2009-02-10", state |-> None, text |-> "Debated"],
                   [datetime |-> "2009-02-10", state |-> Some("REFERRED"),
                    text |-> "Referred"]>>]

\* A later version of h1.xml: a short title, no id on the sponsor, the
\* cosponsor withdrawn, a blank and an unknown committee code, other
\* subject terms (one unknown), no related bill.
H1_revised ==
    [H1 EXCEPT
       !.state = <<[datetime |-> "2009-03-15", text |-> "REPORTED"]>>,
       !.titles = @ \o <<[type |-> Some("short"), as |-> Some("introduced"),
                          text |-> Some("Tax Act")]>>,
       !.sponsor = <<[id |-> None]>>,
       !.cosponsors = <<[id |-> Some(<<2>>), joined |-> "2009-01-06",
                         withdrawn |-> Some("2009-03-15")]>>,
       !.committees = <<[code |-> Some("")], [code |-> Some("XXXX")],
                        [code |-> Some("SSFI")]>>,
       !.subjects = <<[name |-> <<"t", "a", "x", " ", " ", "b">>],
                      [name |-> <<"B", "a", "t">>]>>,
       !.relatedbills = <<>>]

H1_no_introduced == [H1_revised EXCEPT !.introduced = <<>>]
H1_no_number == [H1_revised EXCEPT !.number = None]
H1_no_state == [H1_revised EXCEPT !.state = <<>>]

\* The sponsor's id names no Person.
H1_unknown_sponsor == [H1 EXCEPT !.sponsor = <<[id |-> Some(<<9>>)]>>]

\* No sponsor element; the first cosponsor's id names no Person.
H1_unknown_cosponsor ==
    [H1 EXCEPT !.sponsor = <<>>,
               !.cosponsors = <<[id |-> Some(<<9>>), joined |-> "2009-01-06",
                                 withdrawn |-> None],
                                [id |-> Some(<<1>>), joined |-> "2009-02-10",
                                 withdrawn |-> None]>>]

\* No sponsor element and no cosponsors.
H1_alone == [H1 EXCEPT !.sponsor = <<>>, !.cosponsors = <<>>]

\* A document whose attributes name another bill than the file's name.
H1_as_h3 == [H1_alone EXCEPT !.number = Some(<<0, 3>>)]

S2 ==
    [H1 EXCEPT
       !.type = Some("s"), !.session = Some(<<1, 1, 0>>), !.number = Some(<<2>>),
       !.sponsor = <<[id |-> Some(<<2>>)]>>,
       !.cosponsors = <<[id |-> Some(<<1>>), joined |-> "2009-02-10",
                         withdrawn |-> Some("")]>>,
       !.committees = <<[code |-> Some("SSFI")]>>,
       !.relatedbills = <<[session |-> <<1, 1, 1>>, type |-> "h", number |-> <<1>>,
                           relation |-> "identical"]>>]

S2_revised ==
    [S2 EXCEPT
       !.cosponsors = <<[id |-> Some(<<1>>), joined |-> "2009-03-15",
                         withdrawn |-> None],
                        [id |-> Some(<<1>>), joined |-> "2009-02-10",
                         withdrawn |-> None]>>,
       !.relatedbills = @ \o @]

DocPool == <<H1, H1_revised, H1_no_introduced, H1_no_number, H1_no_state,
             H1_unknown_sponsor, H1_unknown_cosponsor, H1_alone, H1_as_h3,
             S2, S2_revised>>

\* The documents a bill file may hold, as indexes of DocPool.
DocsOf(fname) ==
    IF fname = "data/us/111/bills/h1.xml" THEN 1..9 ELSE {10, 11}

----------------------------------------------------------------------------
(* main: the terms (lines 181-260) *)

\* A top-term element and a term element of a taxonomy file.
TopTerm(value, terms) == [value |-> Some(value), terms |-> terms]
SubTerm(value) == [value |-> Some(value)]

\* The taxonomy the stored terms of the first run come from.
Tax_base ==
    [liv |-> <<TopTerm(<<"T", "a", "x">>, <<>>)>>,
     liv111 |-> <<TopTerm(<<"T", "a", "x">>, <<SubTerm(<<"T", "a", "x", " ", "B">>)>>)>>,
     crsnet |-> <<>>]

\* "Tax" leaves the new scheme, "Bat" enters it and takes over "Tax B";
\* "Bat" is also listed below itself.
Tax_moved ==
    [Tax_base EXCEPT
       !.liv111 = <<TopTerm(<<"B", "a", "t">>,
                            <<SubTerm(<<"T", "a", "x", " ", "B">>),
                              SubTerm(<<"B", "a", "t">>)>>)>>]

\* Both files of the new scheme define the top-term "Bat".
Tax_twice ==
    [Tax_base EXCEPT
       !.liv111 = <<TopTerm(<<"B", "a", "t">>, <<>>)>>,
       !.crsnet = <<TopTerm(<<"B", "a", "t">>, <<>>)>>]

\* The old scheme is empty; "Tax B" is a top-term of its own and "Tax" has
\* a new subterm.
Tax_flat ==
    [liv |-> <<>>,
     liv111 |-> <<TopTerm(<<"T", "a", "x">>, <<SubTerm(<<"A", "x">>)>>),
                  TopTerm(<<"T", "a", "x", " ", "B">>, <<>>)>>,
     crsnet |-> <<>>]

\* "Tax" is spelled in lower case.
Tax_lower ==
    [Tax_base EXCEPT
       !.liv111 = <<TopTerm(<<"t", "a", "x">>, <<SubTerm(<<"T", "a", "x", " ", "B">>)>>)>>]

TaxPool == <<Tax_base, Tax_moved, Tax_twice, Tax_flat, Tax_lower>>

\* The context of the term phase: the tables it writes, the dictionary
\* existing_terms (its values; the key of a value is its term_type and
\* name), the set terms_parsed, the global TERM_CACHE as it is, the calls
\* made, the exception raised.
TermContext ==
    [billterms |-> billterms, subterms |-> subterms, bill_terms |-> bill_terms,
     existing_terms |-> billterms, terms_parsed |-> {}, term |-> 0,
     TERM_CACHE |-> TERM_CACHE, effects |-> <<>>, err |-> ""]

\* BillTerm.save() of a new object: the row is inserted under the next id;
\* the store refuses a second term of the same classification and
\* normalized name with IntegrityError.
BillTerm_save(tc, term_type, name) ==
    IF \E t \in tc.billterms :
          t.term_type = term_type /\ normalize_name(t.name) = normalize_name(name)
    THEN Raise([tc EXCEPT !.term = 0], "IntegrityError")
    ELSE Emit([tc EXCEPT !.term = MaxId(tc.billterms) + 1,
                         !.billterms = @ \cup {[id |-> MaxId(tc.billterms) + 1,
                                                term_type |-> term_type,
                                                name |-> name]}],
              Ev("BillTerm.save", term_type, name))

\* term.subterms.add(subterm): the subterm gets this term as its parent.
subterms_add(edges, term, subterm) ==
    {e \in edges : e[2] # subterm} \cup {<<term, subterm>>}

\* term.subterms.clear(): the term has no subterms any more.
subterms_clear(edges, term) == {e \in edges : e[1] # term}

\* term.delete(): the row goes, and with it the rows that relate it to
\* bills and to other terms.
BillTerm_delete(tc, id) ==
    Emit([tc EXCEPT !.billterms = {t \in @ : t.id # id},
                    !.subterms = {e \in @ : e[1] # id /\ e[2] # id},
                    !.bill_terms = {x \in @ : x[2] # id}],
         Ev("BillTerm.delete", id, None))

\* existing_terms[(int(term_type), name)]: the values under the key.
existing(tc, term_type, name) ==
    {t \in tc.existing_terms : t.term_type = term_type /\ t.name = name}

\* Lines 193-202 and 227-236: a top-term node.  An existing term is reused
\* and marked as parsed; otherwise the term is saved, and an exception of
\* save leaves main.  tc.term is the term the subterm loop adds to.
top_term(tc, node, term_type) ==
    IF node.value = None THEN Raise(tc, "InvalidNode")
    ELSE LET found == existing(tc, term_type, node.value[1])
         IN  IF found # {}
             THEN [tc EXCEPT !.term = (CHOOSE t \in found : TRUE).id,
                             !.terms_parsed = @ \cup {(CHOOSE t \in found : TRUE).id}]
             ELSE Value({IF Raised(r) THEN r
                         ELSE [r EXCEPT !.subterms = subterms_clear(@, r.term)] :
                           r \in {BillTerm_save(tc, term_type, node.value[1])}})

\* Mutation of sub_term: a created subterm is not marked as parsed.
sub_term_unmarked(tc, term, subnode, term_type) ==
    IF subnode.value = None THEN Raise(tc, "InvalidNode")
    ELSE LET found == existing(tc, term_type, subnode.value[1])
         IN  IF found # {}
             THEN [tc EXCEPT
                     !.subterms = subterms_add(@, term, (CHOOSE t \in found : TRUE).id),
                     !.terms_parsed = @ \cup {(CHOOSE t \in found : TRUE).id}]
             ELSE Value({IF Raised(r)
                         THEN Emit([r EXCEPT !.err = "", !.term = term],
                                   Ev("log.error", "Duplicated term", subnode.value[1]))
                         ELSE [r EXCEPT
                                 !.subterms = subterms_add(@, term, r.term),
                                 !.existing_terms =
                                     @ \cup {t \in r.billterms : t.id = r.term},
                                 !.term = term] :
                           r \in {BillTerm_save(tc, term_type, subnode.value[1])}})

\* Lines 205-221 and 239-255: a term node below the top-term `term`.  An
\* existing term is added to the top-term's subterms and marked as parsed;
\* otherwise it is saved, added, entered into existing_terms and marked;
\* IntegrityError of save is logged and the node is left out.
sub_term(tc, term, subnode, term_type) ==
    IF subnode.value = None THEN Raise(tc, "InvalidNode")
    ELSE LET found == existing(tc, term_type, subnode.value[1])
         IN  IF found # {}
             THEN [tc EXCEPT
                     !.subterms = subterms_add(@, term, (CHOOSE t \in found : TRUE).id),
                     !.terms_parsed = @ \cup {(CHOOSE t \in found : TRUE).id}]
             ELSE Value({IF Raised(r)
                         THEN Emit([r EXCEPT !.err = "", !.term = term],
                                   Ev("log.error", "Duplicated term", subnode.value[1]))
                         ELSE [r EXCEPT
                                 !.subterms = subterms_add(@, term, r.term),
                                 !.existing_terms =
                                     @ \cup {t \in r.billterms : t.id = r.term},
                                 !.terms_parsed = @ \cup {r.term},
                                 !.term = term] :
                           r \in {BillTerm_save(tc, term_type, subnode.value[1])}})

RECURSIVE sub_term_loop(_, _, _, _, _)
\* "for subnode in node.xpath('./term')" from element i on.
sub_term_loop(tc, term, node, term_type, i) ==
    IF Raised(tc) \/ i > Len(node.terms) THEN tc
    ELSE Value({sub_term_loop(r, term, node, term_type, i + 1) :
                  r \in {sub_term(tc, term, node.terms[i], term_type)}})

RECURSIVE top_term_loop(_, _, _, _)
\* "for node in tree.xpath('/liv/top-term')" from element i on.
top_term_loop(tc, nodes, term_type, i) ==
    IF Raised(tc) \/ i > Len(nodes) THEN tc
    ELSE Value({top_term_loop(r2, nodes, term_type, i + 1) :
                  r2 \in {IF Raised(r1) THEN r1
                          ELSE sub_term_loop(r1, r1.term, nodes[i], term_type, 1) :
                            r1 \in {top_term(tc, nodes[i], term_type)}}})

\* Lines 257-260, from the i-th value of existing_terms on.
RECURSIVE prune_loop(_, _, _)
prune_loop(tc, order, i) ==
    IF i > Len(order) THEN tc
    ELSE Value({prune_loop(r, order, i + 1) :
                  r \in {IF order[i].id \notin tc.terms_parsed
                         THEN BillTerm_delete(tc, order[i].id) ELSE tc}})

\* Lines 257-260: every value of existing_terms that was not parsed is
\* deleted; order is the order in which the dictionary yields its values.
\* A pending exception has left main before.
prune_terms(tc, order) == IF Raised(tc) THEN tc ELSE prune_loop(tc, order, 1)

\* Mutation of main_terms: a term is looked up, and TERM_CACHE filled,
\* before the terms are reconciled.
main_terms_cached(tc, tax) ==
    Value({IF Raised(r2) THEN r2
           ELSE top_term_loop(r2, tax.crsnet, "new", 1) :
             r2 \in {IF Raised(r1) THEN r1
                     ELSE top_term_loop(r1, tax.liv111, "new", 1) :
                       r1 \in {top_term_loop(
                                  [tc EXCEPT !.TERM_CACHE =
                                      LoadTermCache(tc.billterms)],
                                  tax.liv, "old", 1)}}})

\* Lines 181-255: the old scheme from liv.xml, then the new scheme from
\* liv111.xml and crsnet.xml.  An exception leaves main where it is raised.
main_terms(tc, tax) ==
    Value({IF Raised(r2) THEN r2
           ELSE top_term_loop(r2, tax.crsnet, "new", 1) :
             r2 \in {IF Raised(r1) THEN r1
                     ELSE top_term_loop(r1, tax.liv111, "new", 1) :
                       r1 \in {top_term_loop(tc, tax.liv, "old", 1)}}})

----------------------------------------------------------------------------
(* main: the loop over the bill files (lines 284-331) *)

\* The context main's loop body starts in: the store and the caches as
\* they are, a new Bill object, nothing called yet.
Context ==
    [obj |-> NewBill, bills |-> bills, bill_committees |-> bill_committees,
     bill_terms |-> bill_terms, cosponsors |-> cosponsors,
     relatedbills |-> relatedbills, filerecs |-> filerecs,
     PERSON_CACHE |-> PERSON_CACHE, TERM_CACHE |-> TERM_CACHE,
     effects |-> <<>>, err |-> ""]

\* Lines 294-299: the bill exists and its file is unchanged; only the
\* full-text file is looked at.
skip_path(c, fname, b, opts) ==
    IF (~opts.disable_indexing /\ ~opts.disable_events)
       /\ textdisk[fname] # 0 /\ is_changed(textfile(fname))
    THEN LET c1 == Emit(c, Ev("index.update_object", b.id, None))
             c2 == Emit(c1, Ev("create_events", b.id, None))
         IN  Emit([c2 EXCEPT !.filerecs = save_file(@, textfile(fname))],
                  Ev("File.save_file", textfile(fname), None))
    ELSE c

\* Lines 320-323: the actions that carry a state attribute.
major_actions(node) ==
    LET withstate == SelectSeq(node.actions, LAMBDA a : a.state # None)
    IN  [i \in 1..Len(withstate) |->
            <<<<"repr", parse_datetime(withstate[i].datetime)>>,
              BillStatus_by_xml_code(withstate[i].state[1]),
              withstate[i].text>>]

\* Lines 320-331, after process returned: the bill is saved again with its
\* major actions, the index and the event generator are called, the file
\* is recorded.
after_process(c, node, fname, opts) ==
    LET c1 == Bill_save([c EXCEPT !.obj.major_actions = major_actions(node)])
        c2 == IF ~opts.disable_indexing
              THEN Emit(c1, Ev("index.update_object", c1.obj.id, None))
              ELSE c1
        c3 == IF ~opts.disable_events
              THEN Emit(c2, Ev("create_events", c2.obj.id, None))
              ELSE c2
    IN  Emit([c3 EXCEPT !.filerecs = save_file(@, fname)],
             Ev("File.save_file", fname, None))

\* Mutation of full_path: the file is recorded before its bill is
\* reconciled.
full_path_record_first(c, fname, opts) ==
    Value({IF Raised(r) THEN r
           ELSE Bill_save([r EXCEPT !.obj.major_actions =
                                        major_actions(DocPool[disk[fname]])]) :
             r \in {process(Emit([c EXCEPT !.filerecs = save_file(@, fname)],
                                 Ev("File.save_file", fname, None)),
                            DocPool[disk[fname]])}})

\* Lines 310-331: parse the file, reconcile its bill, then the rest; an
\* exception of process leaves the iteration.
full_path(c, fname, opts) ==
    Value({IF Raised(r) THEN r
           ELSE after_process(r, DocPool[disk[fname]], fname, opts) :
             r \in {process(c, DocPool[disk[fname]])}})

\* Lines 305-331: the file is reconciled, after a second of sleep under
\* options.slow.
parse_path(c, fname, opts) ==
    full_path(IF opts.slow THEN Emit(c, Ev("time.sleep", 1, None)) ELSE c,
              fname, opts)

\* Mutation of loop_body: the change gate is left out and every file is
\* reconciled.
loop_body_ungated(c, fname, opts) == parse_path(c, fname, opts)

\* Mutation of loop_body: an unchanged file is passed over whether or not
\* its Bill is stored.
loop_body_skip_missing(c, fname, opts) ==
    LET m == path_groups(fname)
        found == {b \in c.bills :
                    SameKey(b, int(m.congress), BillType_by_xml_code(m.type),
                            int(m.number))}
    IN  IF ~is_changed(fname) /\ ~opts.force
        THEN IF Cardinality(found) > 1 THEN Raise(c, "MultipleObjectsReturned")
             ELSE IF found # {}
             THEN skip_path([c EXCEPT !.obj = CHOOSE b \in found : TRUE],
                            fname, CHOOSE b \in found : TRUE, opts)
             ELSE c
        ELSE parse_path(c, fname, opts)

\* One iteration of "for fname in files".
loop_body(c, fname, opts) ==
    LET m == path_groups(fname)
        found == {b \in c.bills :
                    SameKey(b, int(m.congress), BillType_by_xml_code(m.type),
                            int(m.number))}
    IN  IF ~is_changed(fname) /\ ~opts.force
        THEN IF Cardinality(found) > 1 THEN Raise(c, "MultipleObjectsReturned")
             ELSE IF found # {}
             THEN skip_path([c EXCEPT !.obj = CHOOSE b \in found : TRUE],
                            fname, CHOOSE b \in found : TRUE, opts)
             ELSE parse_path(c, fname, opts)
        ELSE parse_path(c, fname, opts)

----------------------------------------------------------------------------
(* main: after the loop (lines 333-391) *)

\* settings.CURRENT_CONGRESS.
CURRENT_CONGRESS == 111

\* The labels of BillType, as the pairs (value, label) the enumeration
\* iterates over.
BillType == <<<<"house_bill", "H.R.">>, <<"senate_bill", "S.">>,
              <<"house_resolution", "H.Res.">>>>

\* BillType.by_slug: the type of a slug; no type for another text.
BillType_by_slug(slug) ==
    CASE slug = "h" -> Some("house_bill")
      [] slug = "s" -> Some("senate_bill")
      [] slug = "hr" -> Some("house_resolution")
      [] OTHER -> None

\* The match of the legis-num pattern (lines 355-357) on the text of a floor
\* item: the label and the number, or no match.
legis_num(billname) ==
    CASE billname = "H.R. 1" -> Some([label |-> "H.R.", number |-> <<1>>])
      [] billname = "Senate Amendment to H.R. 1" ->
            Some([label |-> "H.R.", number |-> <<1>>])
      [] billname = "S. 7" -> Some([label |-> "S.", number |-> <<7>>])
      [] OTHER -> None

\* iso8601.parse_date(...).replace(tzinfo=None): the instant of the text.
iso8601_parse_date(value) == parse_datetime(value)

\* What http://docs.house.gov/ answers: open is FALSE when urlopen fails,
\* link tells whether the page holds the download link, parses whether the
\* download is well-formed XML, items are its floor-item elements.
HousePage(open, link, parses, items) ==
    [open |-> open, link |-> link, parses |-> parses, items |-> items]

FloorItem(billname, add_date) == [legis_num |-> billname, add_date |-> add_date]

House_down == HousePage(FALSE, FALSE, FALSE, <<>>)
House_nolink == HousePage(TRUE, FALSE, FALSE, <<>>)
House_badxml == HousePage(TRUE, TRUE, FALSE, <<>>)
House_week ==
    HousePage(TRUE, TRUE, TRUE,
              <<FloorItem("Motion to Adjourn", "2009-03-15"),
                FloorItem("S. 7", "2009-03-15"),
                FloorItem("Senate Amendment to H.R. 1", "2009-03-15")>>)

HousePages == {House_down, House_nolink, House_badxml, House_week}

\* What the calendar page of senate.gov answers: open is FALSE when urlopen
\* fails, blurb tells whether the page holds the Floor Schedule section,
\* links are the (congress, slug, number) of the legislation links in it.
SenatePage(open, blurb, links) == [open |-> open, blurb |-> blurb, links |-> links]

Legislation(congress, slug, number) ==
    [congress |-> congress, bill_type |-> slug, number |-> number]

Senate_down == SenatePage(FALSE, FALSE, <<>>)
Senate_noblurb == SenatePage(TRUE, FALSE, <<>>)
Senate_none == SenatePage(TRUE, TRUE, <<>>)
Senate_h1 == SenatePage(TRUE, TRUE, <<Legislation(<<1, 1, 1>>, "h", <<1>>)>>)
Senate_s9_h1 ==
    SenatePage(TRUE, TRUE, <<Legislation(<<1, 1, 1>>, "s", <<9>>),
                             Legislation(<<1, 1, 1>>, "h", <<1>>)>>)

SenatePages == {Senate_down, Senate_noblurb, Senate_none, Senate_h1, Senate_s9_h1}

\* Lines 365-370 and 385-389: the bill fetched is saved with its new
\* postdate, indexed unless indexing is disabled, and its events created
\* unless they are disabled.
save_scheduled(c, bill, opts) ==
    LET c1 == Bill_save([c EXCEPT !.obj = bill])
        c2 == IF ~opts.disable_indexing
              THEN Emit(c1, Ev("index.update_object", bill.id, None))
              ELSE c1
    IN  IF ~opts.disable_events
        THEN Emit(c2, Ev("create_events", bill.id, None))
        ELSE c2

\* Lines 354-374: one floor item.
floor_item(c, item, opts) ==
    LET m == legis_num(item.legis_num)
        bt == {i \in 1..Len(BillType) : m # None /\ BillType[i][2] = m[1].label}
        found == {b \in c.bills :
                    \E i \in bt : SameKey(b, CURRENT_CONGRESS, BillType[i][1],
                                           int(m[1].number))}
    IN  IF m = None \/ bt = {}
        THEN Emit(c, Ev("log.error", item.legis_num, None))
        ELSE IF Cardinality(found) > 1 THEN Raise(c, "MultipleObjectsReturned")
        ELSE IF found = {}
        THEN Emit(c, Ev("log.error", item.legis_num, None))
        ELSE save_scheduled(c, [(CHOOSE b \in found : TRUE) EXCEPT
                                   !.docs_house_gov_postdate =
                                       Some(iso8601_parse_date(item.add_date))],
                            opts)

RECURSIVE floor_items(_, _, _, _)
floor_items(c, items, i, opts) ==
    IF i > Len(items) \/ Raised(c) THEN c
    ELSE floor_items(floor_item(c, items[i], opts), items, i + 1, opts)

\* Lines 339-374: the floor items of docs.house.gov.  urlopen and the parse
\* of the download raise out of main.
docs_house_gov(c, house, opts) ==
    IF ~house.open THEN Raise(c, "IOError")
    ELSE IF ~house.link
    THEN Emit(c, Ev("log.error", "docs.house.gov", None))
    ELSE IF ~house.parses THEN Raise(c, "XMLSyntaxError")
    ELSE floor_items(c, house.items, 1, opts)

\* Line 384: the bill was never on the schedule, or was put on it more
\* than a week before now.
schedule_due(bill, now, week_passed) ==
    \/ bill.senate_floor_schedule_postdate = None
    \/ bill.senate_floor_schedule_postdate[1] < now /\ week_passed

\* Lines 381-389: one legislation link; found is what Bill.objects.get
\* returned.
legislation_link(c, found, now, week_passed, opts) ==
    IF schedule_due(found, now, week_passed)
    THEN save_scheduled(c, [found EXCEPT !.senate_floor_schedule_postdate =
                                             Some(now)], opts)
    ELSE c

\* Lines 381-391: the links in their order; the first exception is logged
\* and ends the loop.
RECURSIVE legislation_links(_, _, _, _, _, _)
legislation_links(c, links, i, now, week_passed, opts) ==
    IF i > Len(links) THEN c
    ELSE LET bill_type == BillType_by_slug(links[i].bill_type)
             found == {b \in c.bills :
                         bill_type # None
                         /\ SameKey(b, int(links[i].congress), bill_type[1],
                                    int(links[i].number))}
         IN  IF bill_type = None
             THEN Emit(c, Ev("log.error", "senate.gov", "KeyError"))
             ELSE IF found = {}
             THEN Emit(c, Ev("log.error", "senate.gov", "DoesNotExist"))
             ELSE IF Cardinality(found) > 1
             THEN Emit(c, Ev("log.error", "senate.gov", "MultipleObjectsReturned"))
             ELSE legislation_links(
                      legislation_link(c, CHOOSE b \in found : TRUE, now,
                                       week_passed, opts),
                      links, i + 1, now, week_passed, opts)

\* Lines 377-391: the floor schedule of senate.gov.  urlopen raises out of
\* main; what the try block raises is logged.
senate_gov(c, senate, now, week_passed, opts) ==
    IF ~senate.open THEN Raise(c, "IOError")
    ELSE IF ~senate.blurb
    THEN Emit(c, Ev("log.error", "senate.gov", "AttributeError"))
    ELSE legislation_links(c, senate.links, 1, now, week_passed, opts)

\* Lines 333-391: what main does when the loop is over.
after_loop(c, house, senate, now, week_passed, opts) ==
    Value({IF Raised(r) THEN r ELSE senate_gov(r, senate, now, week_passed, opts) :
             r \in {docs_house_gov(c, house, opts)}})

----------------------------------------------------------------------------
(* main: the run *)

\* The values of options.congress and options.filter that are followed; None
\* is an option not given.
CongressPool == {None, Some(<<1, 1, 1>>)}
FilterPool == {None, Some(".*/s2\\.xml"), Some("nothing")}

\* glob.glob('data/us/%s/bills/*.xml' % options.congress), and
\* glob.glob('data/us/*/bills/*.xml') when the option is not given.
glob_bills(congress) ==
    IF congress = None THEN BillFiles
    ELSE {f \in BillFiles : path_groups(f).congress = congress[1]}

\* re.match(options.filter, f) for the patterns of FilterPool.
re_match(pattern, f) ==
    CASE pattern = ".*/s2\\.xml" -> f = "data/us/110/bills/s2.xml"
      [] pattern = "nothing" -> FALSE

\* Lines 269-276: the files the loop goes through.
files(congress, filter) ==
    IF filter = None THEN glob_bills(congress)
    ELSE {f \in glob_bills(congress) : re_match(filter[1], f)}

\* main is not running: n runs were started so far.
Idle(n) == [phase |-> "idle", files |-> {}, todo |-> <<>>, force |-> FALSE,
            slow |-> FALSE, disable_indexing |-> FALSE,
            disable_events |-> FALSE, runs |-> n]

\* The number of runs of main that are followed.
MaxRuns == 2

\* rerun: the run the step belongs to started right after a run that
\* reached its end, with no file changed in between.
Nothing == [kind |-> "none", file |-> "", doc |-> 0, err |-> "", bill |-> 0,
            effects |-> <<>>, unchanged |-> FALSE, force |-> FALSE,
            rerun |-> FALSE, scope |-> {}]

Orders(S) == {sq \in [1..Cardinality(S) -> S] :
                 \A i, j \in 1..Cardinality(S) : i # j => sq[i] # sq[j]}

\* The store before the first run: no bill, the terms and the subterm
\* relation an earlier run over Tax_base left, no file recorded.
InitStore ==
    /\ bills = {} /\ bill_committees = {} /\ bill_terms = {}
    /\ cosponsors = {} /\ relatedbills = {}
    /\ billterms = InitialTerms
    /\ subterms = {<<1, 3>>}
    /\ filerecs = [p \in BillFiles \cup TextFiles |-> 0]
    /\ textdisk = [f \in BillFiles |-> 0]
    /\ PERSON_CACHE = {} /\ TERM_CACHE = {}
    /\ run = Idle(0)
    /\ last = Nothing

Init ==
    /\ InitStore
    /\ taxonomy = 1
    /\ disk \in {d \in [BillFiles -> 1..Len(DocPool)] :
                    \A f \in BillFiles : d[f] \in DocsOf(f)}

\* main is started, in the process and with the caches that are there.  The
\* term phase runs over the taxonomy files and then deletes the terms not
\* parsed, in the order the dictionary existing_terms yields its values,
\* which is any order; an exception ends the run there.  Then glob and the filter
\* select the bill files, listed in some order.
\* The options come from the sets given.
Start(Forces, Slows, NoIndex, NoEvents, Congresses, Filters) ==
    /\ run.phase = "idle" /\ run.runs < MaxRuns
    /\ \E parsed \in {main_terms(TermContext, TaxPool[taxonomy])} :
       \E r \in {prune_terms(parsed, values) :
                    values \in Orders(parsed.existing_terms)} :
          /\ billterms' = r.billterms
          /\ subterms' = r.subterms
          /\ bill_terms' = r.bill_terms
          /\ last' = [Nothing EXCEPT !.kind = IF Raised(r) THEN "error" ELSE "terms",
                                     !.file = "taxonomy", !.doc = taxonomy,
                                     !.err = r.err, !.effects = r.effects,
                                     !.rerun = (last.kind = "finished")]
          /\ IF Raised(r)
             THEN run' = Idle(run.runs + 1)
             ELSE \E congress \in Congresses, filter \in Filters,
                     force \in Forces, slow \in Slows,
                     noindex \in NoIndex, noevents \in NoEvents :
                     \E order \in Orders(files(congress, filter)) :
                        run' = [phase |-> "bills",
                                files |-> files(congress, filter),
                                todo |-> order, force |-> force, slow |-> slow,
                                disable_indexing |-> noindex,
                                disable_events |-> noevents,
                                runs |-> run.runs + 1]
          /\ TERM_CACHE' = r.TERM_CACHE
    /\ UNCHANGED <<bills, bill_committees, cosponsors, relatedbills,
                   taxonomy, filerecs, disk, textdisk, PERSON_CACHE>>

\* A run of main under any options.
StartRun == Start(BOOLEAN, BOOLEAN, BOOLEAN, BOOLEAN, CongressPool, FilterPool)

\* A run of main over all the bill files, under any of the options the loop
\* body reads.
StartFiles == Start(BOOLEAN, {FALSE}, BOOLEAN, BOOLEAN, {None}, {None})

\* A run of main under the default options but for the selection of the
\* files.
StartScope == Start({FALSE}, {FALSE}, {FALSE}, {FALSE}, CongressPool, FilterPool)

\* A run of main over all the bill files, with or without force.
StartForce == Start(BOOLEAN, {FALSE}, {FALSE}, {FALSE}, {None}, {None})

\* A run of main under the default options.
StartPlain == Start({FALSE}, {FALSE}, {FALSE}, {FALSE}, {None}, {None})

\* The module is loaded by a new process: the two caches are empty (lines
\* 26-27).
LoadModule ==
    /\ run.phase = "idle" /\ run.runs < MaxRuns
    /\ PERSON_CACHE # {} \/ TERM_CACHE # {}
    /\ PERSON_CACHE' = {} /\ TERM_CACHE' = {}
    /\ UNCHANGED <<bills, bill_committees, bill_terms, cosponsors, relatedbills,
                   billterms, subterms, taxonomy, filerecs, disk, textdisk, run,
                   last>>

\* One iteration of the loop; an exception ends the run.
MainFile ==
    /\ run.phase = "bills" /\ run.todo # <<>>
    /\ \E fname \in {Head(run.todo)} : \E r \in {loop_body(Context, fname, run)} :
          /\ bills' = r.bills
          /\ bill_committees' = r.bill_committees
          /\ bill_terms' = r.bill_terms
          /\ cosponsors' = r.cosponsors
          /\ relatedbills' = r.relatedbills
          /\ filerecs' = r.filerecs
          /\ PERSON_CACHE' = r.PERSON_CACHE
          /\ TERM_CACHE' = r.TERM_CACHE
          /\ run' = IF Raised(r) THEN Idle(run.runs) ELSE [run EXCEPT !.todo = Tail(@)]
          /\ last' = [kind |-> IF Raised(r) THEN "error"
                               ELSE IF \E i \in 1..Len(r.effects) :
                                         r.effects[i].op = "Bill.save"
                                    THEN "processed" ELSE "skipped",
                      file |-> fname, doc |-> disk[fname], err |-> r.err,
                      bill |-> r.obj.id, effects |-> r.effects,
                      unchanged |-> ~is_changed(fname), force |-> run.force,
                      rerun |-> last.rerun, scope |-> {}]
    /\ UNCHANGED <<billterms, subterms, taxonomy, disk, textdisk>>

\* The loop is over: main reads the two schedules and returns, or ends in
\* the exception they raise.  The pages, and whether a week has passed
\* since a bill was last put on the Senate schedule, come from the sets
\* given; now is the ordinal of the run.
Finish(House, Senate, Weeks) ==
    /\ run.phase = "bills" /\ run.todo = <<>>
    /\ \E house \in House, senate \in Senate, week_passed \in Weeks :
          \E r \in {after_loop(Context, house, senate, run.runs, week_passed, run)} :
             /\ bills' = r.bills
             /\ last' = [Nothing EXCEPT
                            !.kind = IF Raised(r) THEN "error" ELSE "finished",
                            !.file = "after loop", !.err = r.err,
                            !.effects = r.effects, !.scope = run.files,
                            !.rerun = last.rerun]
    /\ run' = Idle(run.runs)
    /\ UNCHANGED <<bill_committees, bill_terms, cosponsors, relatedbills,
                   billterms, subterms, taxonomy, filerecs, disk, textdisk,
                   PERSON_CACHE, TERM_CACHE>>

\* The end of a run, whatever the two pages hold.
FinishRun == Finish(HousePages, SenatePages, BOOLEAN)

\* The end of a run when the two pages are reached and schedule nothing.
FinishPlain == Finish({House_nolink}, {Senate_none}, {FALSE})

\* Between two runs a bill file gets another content.
EditFile ==
    /\ run.phase = "idle" /\ run.runs < MaxRuns
    /\ \E f \in BillFiles : \E d \in DocsOf(f) \ {disk[f]} :
          disk' = [disk EXCEPT ![f] = d]
    /\ last' = Nothing
    /\ UNCHANGED <<bills, bill_committees, bill_terms, cosponsors, relatedbills,
                   billterms, subterms, taxonomy, filerecs, textdisk,
                   PERSON_CACHE, TERM_CACHE, run>>

MaxTextVersion == 1

\* The bill files whose full text is ever published.
TextEdited == {"data/us/111/bills/h1.xml"}

\* Between two runs a full-text file appears, changes or disappears.
EditText ==
    /\ run.phase = "idle" /\ run.runs < MaxRuns
    /\ \E f \in TextEdited : \E v \in (0..MaxTextVersion) \ {textdisk[f]} :
          textdisk' = [textdisk EXCEPT ![f] = v]
    /\ last' = Nothing
    /\ UNCHANGED <<bills, bill_committees, bill_terms, cosponsors, relatedbills,
                   billterms, subterms, taxonomy, filerecs, disk,
                   PERSON_CACHE, TERM_CACHE, run>>

\* The bill phase: runs of one process over all the bill files, which
\* change between the runs; the two pages schedule nothing.
Next == StartFiles \/ MainFile \/ FinishPlain \/ EditFile \/ EditText

Spec == Init /\ [][Next]_vars

\* The whole of main: runs under any options, in the same process or in a
\* new one, whatever the two pages hold; the files stay as they are.
NextMain == StartRun \/ MainFile \/ FinishRun \/ LoadModule

SpecMain == Init /\ [][NextMain]_vars

\* The taxonomy files change between runs; the bill files stay as they are.
InitTerms ==
    /\ InitStore
    /\ taxonomy \in 1..Len(TaxPool)
    /\ disk \in {d \in [BillFiles -> 1..Len(DocPool)] :
                    /\ d["data/us/111/bills/h1.xml"] \in {1, 2}
                    /\ d["data/us/110/bills/s2.xml"] = 10}

\* Between two runs the taxonomy files get another content.
EditTaxonomy ==
    /\ run.phase = "idle" /\ run.runs < MaxRuns
    /\ \E t \in (1..Len(TaxPool)) \ {taxonomy} : taxonomy' = t
    /\ last' = Nothing
    /\ UNCHANGED <<bills, bill_committees, bill_terms, cosponsors, relatedbills,
                   billterms, subterms, filerecs, disk, textdisk,
                   PERSON_CACHE, TERM_CACHE, run>>

\* Between two runs a Bill is deleted from the store by other means than
\* main, with the rows that refer to it; the record of its file stays.
DropBill ==
    /\ run.phase = "idle" /\ run.runs < MaxRuns
    /\ \E b \in bills :
          /\ bills' = bills \ {b}
          /\ bill_committees' = {x \in bill_committees : x[1] # b.id}
          /\ bill_terms' = {x \in bill_terms : x[1] # b.id}
          /\ cosponsors' = {x \in cosponsors : x.bill # b.id}
          /\ relatedbills' = {x \in relatedbills :
                                x.bill # b.id /\ x.related_bill # b.id}
    /\ last' = Nothing
    /\ UNCHANGED <<billterms, subterms, taxonomy, filerecs, disk, textdisk,
                   PERSON_CACHE, TERM_CACHE, run>>

NextStore == StartScope \/ MainFile \/ FinishRun \/ DropBill

SpecStore == Init /\ [][NextStore]_vars

NextTerms == StartForce \/ MainFile \/ FinishPlain \/ EditTaxonomy \/ LoadModule

SpecTerms == InitTerms /\ [][NextTerms]_vars

----------------------------------------------------------------------------
(* Properties *)

HasOp(effects, op) == \E i \in 1..Len(effects) : effects[i].op = op

\* The step's first Bill.save wrote over a stored row (the object had
\* adopted an id) instead of inserting one.
AdoptedId(effects) ==
    \E i \in 1..Len(effects) :
       /\ effects[i].op = "Bill.save" /\ effects[i].b = FALSE
       /\ \A j \in 1..(i - 1) : effects[j].op # "Bill.save"

UniqueNaturalKey ==
    \A a, b \in bills :
       (SameKey(a, b.congress, b.bill_type, b.number) \/ a.id = b.id) => a = b

\* A stored Bill keeps its id and its natural key.
BillIdentityKept ==
    \A b \in bills : \E k \in bills' :
       k.id = b.id /\ SameKey(k, b.congress, b.bill_type, b.number)

\* C1: after any sequence of reconciliations at most one Bill is stored per
\* natural key (congress, bill_type, number); a stored Bill keeps its id
\* and key when a document of the same key is reconciled, which updates
\* that row and adds none.
C1_OneBillPerNaturalKey ==
    /\ []UniqueNaturalKey
    /\ [][BillIdentityKept
           /\ (last'.kind = "processed" /\ AdoptedId(last'.effects)
                => bills' = {b \in bills : b.id # last'.bill}
                             \cup {b \in bills' : b.id = last'.bill}
                   /\ Cardinality(bills') = Cardinality(bills))]_vars

\* A document whose key was already stored has been reconciled again.
C1_Witness ==
    /\ last.kind = "processed" /\ AdoptedId(last.effects)
    /\ \E b \in bills : b.id = last.bill /\ Cardinality(bills) = 2

\* The persisted state a reconciliation leaves.
Persisted(c) ==
    <<c.bills, c.bill_committees, c.bill_terms, c.cosponsors, c.relatedbills>>

\* C2: reconciling the same bill document twice in succession leaves,
\* after the second reconciliation, the persisted state the first one
\* left: wherever main has just reconciled a file, reconciling that file
\* again at once succeeds, ends on the same Bill id and the same Bill row,
\* and leaves the Bill rows, committees, terms, Cosponsor rows and
\* RelatedBill rows exactly as they are.
C2_ReconcileTwiceSameState ==
    last.kind = "processed" =>
       \A again \in {full_path(Context, last.file, run)} :
          /\ ~Raised(again)
          /\ again.obj.id = last.bill /\ again.obj \in bills
          /\ Persisted(again)
                = <<bills, bill_committees, bill_terms, cosponsors, relatedbills>>

\* main has reconciled again, under the force flag, a document it had
\* reconciled and recorded before, and wrote no Cosponsor row for it.
C2_Witness ==
    /\ last.kind = "processed" /\ last.unchanged /\ last.force
    /\ AdoptedId(last.effects)
    /\ Len(DocPool[last.doc].cosponsors) > 0
    /\ ~HasOp(last.effects, "Cosponsor.create")
    /\ ~HasOp(last.effects, "Cosponsor.save")

\* What the document's references resolve to in the store.
ResolvedCommittees(node) ==
    {k \in Committees : \E i \in 1..Len(node.committees) :
                            node.committees[i].code = Some(k)}

ResolvedTerms(node, congress) ==
    {t.id : t \in {u \in billterms :
                     /\ u.term_type = (IF congress >= NewTermCongress
                                        THEN "new" ELSE "old")
                     /\ \E i \in 1..Len(node.subjects) :
                           normalize_name(node.subjects[i].name)
                              = normalize_name(u.name)}}

RefersTo(sub, b) ==
    SameKey(b, int(sub.session), BillType_by_xml_code(sub.type), int(sub.number))

ResolvedRelated(node) ==
    SelectSeq(node.relatedbills, LAMBDA sub : \E b \in bills : RefersTo(sub, b))

\* C3: after a bill document is reconciled, the bill's terms, committees
\* and RelatedBill rows are exactly the references of that document that
\* resolve (unknown or blank committee codes, unknown term names and
\* related bills not stored are left out); nothing an earlier version of
\* the document put there remains.
C3_RelationshipsFullyReplaced ==
    last.kind = "processed" =>
       LET node == DocPool[last.doc]
           b == CHOOSE x \in bills : x.id = last.bill
           related == ResolvedRelated(node)
           rows == {x \in relatedbills : x.bill = b.id}
       IN  /\ {x[2] : x \in {y \in bill_committees : y[1] = b.id}}
                 = ResolvedCommittees(node)
           /\ {x[2] : x \in {y \in bill_terms : y[1] = b.id}}
                 = ResolvedTerms(node, b.congress)
           /\ Cardinality(rows) = Len(related)
           /\ \A i \in 1..Len(related) : \E x \in rows, r \in bills :
                 /\ x.n = i /\ x.related_bill = r.id /\ RefersTo(related[i], r)
                 /\ x.relation = related[i].relation

\* The revised h1.xml has been reconciled over an earlier version: the
\* bill lost the term, the committee and the related bill of that version,
\* and the unknown term and committee code of the new one are not there.
C3_Witness ==
    /\ last.kind = "processed" /\ last.doc = 2 /\ AdoptedId(last.effects)
    /\ ~last.unchanged
    /\ HasOp(last.effects, "log.error")
    /\ {x \in bill_terms : x[1] = last.bill} = {<<last.bill, 3>>}
    /\ {x \in bill_committees : x[1] = last.bill} = {<<last.bill, "SSFI">>}
    /\ {x \in relatedbills : x.bill = last.bill} = {}
    /\ \E b \in bills : b.id # last.bill

\* The Bill stored under the natural key the file's name spells.
BillOfPath(fname) ==
    {b \in bills :
        SameKey(b, int(path_groups(fname).congress),
                BillType_by_xml_code(path_groups(fname).type),
                int(path_groups(fname).number))}

\* main is about to handle a file that File reports unchanged, without
\* the force flag.
AtUnchangedFile ==
    /\ run.phase = "bills" /\ run.todo # <<>>
    /\ ~is_changed(Head(run.todo)) /\ ~run.force

\* The step wrote no Bill field and no relationship row, and recorded no
\* bill file: whatever it did belongs to the full-text freshness check.
OnlyFreshnessCheck ==
    /\ <<bills, bill_committees, bill_terms, cosponsors, relatedbills>>'
          = <<bills, bill_committees, bill_terms, cosponsors, relatedbills>>
    /\ \A p \in BillFiles : filerecs'[p] = filerecs[p]
    /\ \A i \in 1..Len(last'.effects) :
          \/ last'.effects[i].op \in {"index.update_object", "create_events"}
          \/ /\ last'.effects[i].op = "File.save_file"
             /\ last'.effects[i].a = textfile(Head(run.todo))

\* C4 as stated: for a bill file reported unchanged, with force off, main
\* rewrites no Bill field and no relationship row; it only makes the
\* full-text freshness check.
C4_AsStated == [][AtUnchangedFile => OnlyFreshnessCheck]_vars

\* C4, amended: for a bill file reported unchanged, with force off, whose
\* Bill is stored under the natural key of the file's name, main rewrites
\* no Bill field and no relationship row; it only makes the full-text
\* freshness check.
C4_SkipWhenBillStored ==
    [][AtUnchangedFile /\ BillOfPath(Head(run.todo)) # {} => OnlyFreshnessCheck]_vars

\* An unchanged file was skipped and only its changed full text handled.
C4_Witness ==
    /\ last.kind = "skipped" /\ last.unchanged /\ ~last.force
    /\ HasOp(last.effects, "create_events")
    /\ filerecs[textfile(last.file)] # 0

\* main handles file f in this step.
Handles(f) == run.phase = "bills" /\ run.todo # <<>> /\ Head(run.todo) = f

\* The step ended in an exception.
Fails(f) == Handles(f) /\ last'.kind = "error" /\ run'.phase = "idle"

\* The step went through the whole reconciliation of f: process saved the
\* bill and set its relationships, main saved it again, and recording the
\* file was the last thing done.
FullyReconciled(f) ==
    /\ Handles(f) /\ last'.kind = "processed" /\ last'.err = ""
    /\ last'.file = f
    /\ \A op \in {"Bill.save", "Bill.committees.set", "Bill.terms.set",
                   "RelatedBill.delete"} : HasOp(last'.effects, op)
    /\ last'.effects[Len(last'.effects)] = Ev("File.save_file", f, None)
    /\ Cardinality({i \in 1..Len(last'.effects) :
                      last'.effects[i].op = "Bill.save"}) = 2

\* C5: the ChangeRecord of a bill file is written only by a step that has
\* reconciled the file's bill in full and without error, and then holds the
\* file's signature; a step that fails writes no ChangeRecord and leaves
\* is_changed(file) true; and a file for which is_changed is true is never
\* skipped: the run that meets it reconciles it in full (or fails again).
C5_RecordOnlyAfterSuccess ==
    [][\A f \in BillFiles :
         /\ filerecs'[f] # filerecs[f]
               => FullyReconciled(f) /\ filerecs'[f] = disk[f]
         /\ Fails(f)
               => /\ \A p \in BillFiles \cup TextFiles : filerecs'[p] = filerecs[p]
                  /\ is_changed(f) /\ is_changed(f)'
                  /\ ~HasOp(last'.effects, "File.save_file")
         /\ Handles(f) /\ is_changed(f)
               => Fails(f) \/ FullyReconciled(f)]_vars

\* A reconciliation failed after it had saved the bill; no record of the
\* file exists and File still reports it changed.
C5_Witness ==
    /\ last.kind = "error" /\ last.file \in BillFiles
    /\ HasOp(last.effects, "Bill.save")
    /\ filerecs[last.file] = 0 /\ is_changed(last.file)
    /\ run.runs = 2

\* The document lacks an attribute or element reconciliation requires.
MissingRequired(node) ==
    \/ node.type = None \/ node.session = None \/ node.number = None
    \/ Len(node.introduced) = 0 \/ Len(node.state) = 0

\* The id is there and names no Person.
UnknownPerson(id) == id # None /\ int(id[1]) \notin Persons

SponsorUnknown(node) == Len(node.sponsor) > 0 /\ UnknownPerson(node.sponsor[1].id)

SomeCosponsorUnknown(node) ==
    \E i \in 1..Len(node.cosponsors) : UnknownPerson(node.cosponsors[i].id)

\* C6 as stated: a missing required attribute or element is fatal to its
\* document only; main skips the document and goes on with the remaining
\* files of the run.
C6_AsStated ==
    (/\ last.kind \in {"processed", "error"} /\ last.file \in BillFiles
     /\ MissingRequired(DocPool[last.doc]))
       => run.phase = "bills"

\* C7: when the reconciliation of a document fails for a missing required
\* attribute or element, every persisted table (Bill rows, committees,
\* terms, Cosponsor rows, RelatedBill rows) is left as it was.
C7_FailureLeavesStateUntouched ==
    [][\A f \in BillFiles :
         Fails(f) /\ MissingRequired(DocPool[disk[f]])
              /\ last'.err \in {"InvalidNode", "IndexError"}
           => <<bills, bill_committees, bill_terms, cosponsors, relatedbills>>'
                 = <<bills, bill_committees, bill_terms, cosponsors, relatedbills>>]_vars

\* A version of h1.xml without its state element failed while the bill,
\* with a cosponsor, a committee and a term, was stored from an earlier
\* version.
C7_Witness ==
    /\ last.kind = "error" /\ last.file \in BillFiles
    /\ last.err = "IndexError" /\ last.doc = 5
    /\ \E b \in BillOfPath(last.file) :
          /\ \E x \in cosponsors : x.bill = b.id
          /\ \E x \in bill_committees : x[1] = b.id
          /\ \E x \in bill_terms : x[1] = b.id
          /\ b.current_status = "referred"

\* C8 as stated: sponsor resolution never fails a document; without a
\* sponsor element, without an id, or with an id that names no Person, the
\* sponsor becomes null and the reconciliation goes on.
C8_AsStated ==
    LET node == DocPool[last.doc]
    IN  (/\ last.kind \in {"processed", "error"} /\ last.file \in BillFiles
         /\ ~MissingRequired(node) /\ ~SomeCosponsorUnknown(node)
         /\ (Len(node.sponsor) = 0 \/ node.sponsor[1].id = None
                \/ SponsorUnknown(node)))
          => /\ last.kind = "processed"
             /\ \E b \in bills : b.id = last.bill /\ b.sponsor = None

\* C9 as stated: a cosponsor whose id names no Person is dropped without
\* an error; the other cosponsors of the document get their rows and the
\* reconciliation completes.
C9_AsStated ==
    LET node == DocPool[last.doc]
    IN  (/\ last.kind \in {"processed", "error"} /\ last.file \in BillFiles
         /\ ~MissingRequired(node) /\ ~SponsorUnknown(node)
         /\ SomeCosponsorUnknown(node))
          => /\ last.kind = "processed"
             /\ \A i \in 1..Len(node.cosponsors) :
                   LET id == node.cosponsors[i].id
                   IN  id # None =>
                          ((\E x \in cosponsors :
                               x.bill = last.bill /\ x.person = int(id[1]))
                           <=> ~UnknownPerson(id))

CosponsorUnique ==
    \A x, y \in cosponsors :
       ((x.person = y.person /\ x.bill = y.bill) \/ x.id = y.id) => x = y

\* Every save of a Cosponsor row in the last step changed joined or
\* withdrawn: a row whose values equal the observed ones is not written.
NoIdleCosponsorWrite ==
    \A i \in 1..Len(last.effects) :
       last.effects[i].op = "Cosponsor.save"
          => last.effects[i].b[1] # last.effects[i].b[2]

\* After a reconciliation the row of each cosponsor of the document holds
\* the joined and withdrawn values of the document (of the last element
\* that names the person).
CosponsorRowsCurrent ==
    last.kind = "processed" =>
       LET subs == DocPool[last.doc].cosponsors
       IN  \A i \in 1..Len(subs) :
              (\A j \in (i + 1)..Len(subs) : subs[j].id # subs[i].id)
                 => \E x \in cosponsors :
                       /\ x.bill = last.bill /\ x.person = int(subs[i].id[1])
                       /\ x.joined = parse_datetime(subs[i].joined)
                       /\ x.withdrawn =
                             (IF subs[i].withdrawn \in {None, Some("")} THEN None
                              ELSE Some(parse_datetime(subs[i].withdrawn[1])))

\* A stored Cosponsor row stays, under its id, person, bill and role; its
\* joined and withdrawn change only by a save the step reports.
CosponsorUpdatedInPlace ==
    \A x \in cosponsors : \E y \in cosponsors' :
       /\ y.id = x.id /\ y.person = x.person /\ y.bill = x.bill /\ y.role = x.role
       /\ (y.joined # x.joined \/ y.withdrawn # x.withdrawn)
             => \E i \in 1..Len(last'.effects) :
                   /\ last'.effects[i].op = "Cosponsor.save"
                   /\ last'.effects[i].a = <<x.person, x.bill>>

\* C10: at most one Cosponsor row exists per (person, bill); a cosponsor
\* observed with the joined and withdrawn values its row holds causes no
\* write of the row; a changed withdrawn date is written to the existing
\* row, which keeps its id, and no row is added for it.
C10_CosponsorUpdateOnlyOnChange ==
    /\ [](CosponsorUnique /\ NoIdleCosponsorWrite /\ CosponsorRowsCurrent)
    /\ [][CosponsorUpdatedInPlace]_vars

\* A cosponsor was observed again with another withdrawn date: its row was
\* saved once, with joined as before, and not created.
C10_Witness ==
    /\ last.kind = "processed"
    /\ ~HasOp(last.effects, "Cosponsor.create")
    /\ \E i \in 1..Len(last.effects) :
          /\ last.effects[i].op = "Cosponsor.save"
          /\ last.effects[i].b[1][1] = last.effects[i].b[2][1]
          /\ last.effects[i].b[1][2] # last.effects[i].b[2][2]
    /\ \E x \in cosponsors : x.bill = last.bill /\ x.withdrawn # None

----------------------------------------------------------------------------
(* Properties of the term phase *)

\* The last step was a term phase, which ran to its end.
TermPassDone == last.file = "taxonomy" /\ last.kind = "terms"

TermKeyUnique ==
    \A t, u \in billterms :
       (t.term_type = u.term_type /\ normalize_name(t.name) = normalize_name(u.name))
       => t = u

\* The normalized names the top-terms of a file define.
TopNames(nodes) ==
    {normalize_name(nodes[i].value[1]) : i \in 1..Len(nodes)}

\* The names both files of the new scheme define as top-terms.
DefinedTwice(tax) == TopNames(tax.liv111) \cap TopNames(tax.crsnet)

\* C11 as stated: after a term phase the classification and normalized
\* name of a term are unique among the stored terms, and when liv111.xml
\* and crsnet.xml each define a top-term of the same normalized name, the
\* phase runs to its end and exactly one term of the new scheme is stored
\* under that name, whether or not it was stored before.
C11_AsStated ==
    last.file = "taxonomy" =>
       /\ TermKeyUnique
       /\ \A n \in DefinedTwice(TaxPool[last.doc]) :
             /\ last.kind = "terms"
             /\ Cardinality({t \in billterms :
                               t.term_type = "new" /\ normalize_name(t.name) = n}) = 1

\* The classification and name of every term element of the files.
RECURSIVE Listed(_, _, _)
Listed(nodes, term_type, i) ==
    IF i > Len(nodes) THEN {}
    ELSE {<<term_type, nodes[i].value[1]>>}
         \cup {<<term_type, nodes[i].terms[j].value[1]>> : j \in 1..Len(nodes[i].terms)}
         \cup Listed(nodes, term_type, i + 1)

Observed(tax) ==
    Listed(tax.liv, "old", 1) \cup Listed(tax.liv111, "new", 1)
      \cup Listed(tax.crsnet, "new", 1)

\* C12: at the end of a term phase every term that was stored before the
\* phase and that no taxonomy file lists is deleted, every term that was
\* stored before and that a file lists is still stored, and every term the
\* phase created is stored.
C12_PruneMissingTerms ==
    [][(run.phase = "idle" /\ last'.file = "taxonomy" /\ last'.kind = "terms") =>
          /\ \A t \in billterms :
                (t \in billterms') <=>
                   (<<t.term_type, t.name>> \in Observed(TaxPool[taxonomy]))
          /\ \A i \in 1..Len(last'.effects) :
                last'.effects[i].op = "BillTerm.save" =>
                   \E t \in billterms' \ billterms :
                      /\ t.term_type = last'.effects[i].a
                      /\ t.name = last'.effects[i].b]_vars

\* A term phase has reused a term, created a top-term and a subterm, and
\* deleted a term.
C12_Witness ==
    /\ TermPassDone
    /\ HasOp(last.effects, "BillTerm.delete")
    /\ \E i, j \in 1..Len(last.effects) :
          /\ i # j
          /\ last.effects[i].op = "BillTerm.save"
          /\ last.effects[j].op = "BillTerm.save"
    /\ \E t \in billterms : t \in InitialTerms

\* The name and classification of the stored term of an id.
TermOf(id) == CHOOSE t \in billterms : t.id = id

\* The file of the classification lists the name below the top-term.
ListsBelow(tax, term_type, top, sub) ==
    \E nodes \in (IF term_type = "old" THEN {tax.liv} ELSE {tax.liv111, tax.crsnet}) :
       \E i \in 1..Len(nodes) :
          /\ nodes[i].value[1] = top
          /\ \E j \in 1..Len(nodes[i].terms) : nodes[i].terms[j].value[1] = sub

\* C13 as stated: after a term phase each term is a subterm of at most one
\* top-term, and every stored parent edge is an edge of the latest files: a
\* term that the files no longer list below a top-term is no longer its
\* subterm.
C13_AsStated ==
    TermPassDone =>
       /\ \A e, f \in subterms : e[2] = f[2] => e = f
       /\ \A e \in subterms :
             ListsBelow(TaxPool[last.doc], TermOf(e[1]).term_type,
                        TermOf(e[1]).name, TermOf(e[2]).name)

----------------------------------------------------------------------------
(* Properties of the bill phase, continued *)

\* The persons with a Cosponsor row for the bill among the rows.
Roster(rows, bill) == {x.person : x \in {y \in rows : y.bill = bill}}

\* The persons the cosponsor elements of the document resolve to.
ResolvableCosponsors(node) ==
    {int(node.cosponsors[i].id[1]) :
        i \in {j \in 1..Len(node.cosponsors) :
                 /\ node.cosponsors[j].id # None
                 /\ int(node.cosponsors[j].id[1]) \in Persons}}

\* C14 as stated: after a bill document is reconciled the persons having a
\* Cosponsor row for the bill are exactly the resolvable cosponsor
\* references of the document.
C14_AsStated ==
    last.kind = "processed" =>
       Roster(cosponsors, last.bill) = ResolvableCosponsors(DocPool[last.doc])

\* C14 amended: the reconciliation of a bill document adds the resolvable
\* cosponsor references of the document to the persons having a Cosponsor
\* row for the bill and removes none: a cosponsor element removed from the
\* document leaves its row in place.
C14_RosterOnlyGrows ==
    [][(run.phase = "bills" /\ last'.kind = "processed") =>
          Roster(cosponsors', last'.bill)
            = Roster(cosponsors, last'.bill)
                \cup ResolvableCosponsors(DocPool[last'.doc])]_vars

\* A document without the cosponsor of its earlier version was reconciled:
\* the row of that cosponsor is still there.
C14_Witness ==
    /\ last.kind = "processed"
    /\ Roster(cosponsors, last.bill) # {}
    /\ ResolvableCosponsors(DocPool[last.doc]) = {}

\* C15 as stated: when main skips an unchanged bill file (no force) whose
\* full-text file exists and is reported changed, it calls the search
\* index unless indexing is disabled and the event generator unless event
\* generation is disabled, each whatever the other flag says, and, having
\* called one of them, records the full-text file.
C15_AsStated ==
    [][(/\ run.phase = "bills" /\ last'.kind = "skipped"
        /\ textdisk[last'.file] # 0 /\ is_changed(textfile(last'.file))) =>
          /\ ~run.disable_indexing => HasOp(last'.effects, "index.update_object")
          /\ ~run.disable_events => HasOp(last'.effects, "create_events")
          /\ (~run.disable_indexing \/ ~run.disable_events) =>
                filerecs'[textfile(last'.file)] = textdisk[last'.file]]_vars

\* The rows main stores, with the change records.
Stored == <<bills, bill_committees, bill_terms, cosponsors, relatedbills,
            billterms, subterms, filerecs>>

\* C16 as stated: a run of main that follows a run that reached its end,
\* over the same unchanged files and without force, leaves the bills, the
\* terms, the relationship rows and the change records as they are and
\* calls neither the search index nor the event generator.
C16_AsStated ==
    [][(/\ last'.rerun
        /\ \/ last'.file = "taxonomy"
           \/ run.phase = "bills" /\ ~run.force /\ last'.file \in BillFiles) =>
          /\ Stored' = Stored
          /\ ~HasOp(last'.effects, "index.update_object")
          /\ ~HasOp(last'.effects, "create_events")]_vars

\* TERM_CACHE is empty or holds the stored terms as a lookup loads them.
CacheOfStoredTerms == TERM_CACHE \in {{}, LoadTermCache(billterms)}

\* The terms the bill has.
TermsOfBill(rows, bill) == {x[2] : x \in {y \in rows : y[1] = bill}}

\* C17: in a run of main that starts with TERM_CACHE empty the term phase
\* is over before a lookup fills the cache: the term phase leaves the cache
\* empty and no bill with a term it deleted, and from then on the bill
\* files are handled with a cache that is empty or holds the terms the term
\* phase left; with such a cache a subject term of a reconciled document is
\* attached to the bill exactly when a term of the classification of its
\* congress and of its normalized name is stored, so every term attached
\* is a stored one.
C17_TermsReconciledBeforeLookup ==
    [][/\ (run.phase = "idle" /\ last'.file = "taxonomy" /\ TERM_CACHE = {}) =>
             /\ TERM_CACHE' = {}
             /\ \A x \in bill_terms' :
                   (\E t \in billterms : t.id = x[2])
                      => \E t \in billterms' : t.id = x[2]
       /\ (run.phase = "bills" /\ last'.file \in BillFiles
              /\ CacheOfStoredTerms) =>
             /\ CacheOfStoredTerms'
             /\ billterms' = billterms
             /\ last'.kind = "processed" =>
                   /\ TermsOfBill(bill_terms', last'.bill)
                        = ResolvedTerms(DocPool[last'.doc],
                                        int(DocPool[last'.doc].session[1]))
                   /\ TermsOfBill(bill_terms', last'.bill)
                        \subseteq {t.id : t \in billterms'}]_vars

\* In the first run the term phase deleted a term and created one, and a
\* document that names the created term was reconciled: the bill has it.
C17_Witness ==
    /\ last.kind = "processed" /\ run.runs = 1
    /\ TERM_CACHE = LoadTermCache(billterms)
    /\ \E t \in InitialTerms : t \notin billterms
    /\ \E x \in bill_terms :
          /\ x[1] = last.bill
          /\ \A t \in InitialTerms : t.id # x[2]

\* The Bill stored under the natural key the document's attributes spell.
BillOfDoc(node) ==
    {b \in bills : SameKey(b, int(node.session[1]),
                           BillType_by_xml_code(node.type[1]), int(node.number[1]))}

\* A RelatedBill row from the one bill to the other is stored.
Related(a, b) ==
    \E x \in relatedbills : x.bill = a.id /\ x.related_bill = b.id

\* C18 as stated: when the first run of main has reached its end, every
\* document it reconciled that refers to the bill of another document it
\* reconciled has a RelatedBill row to that bill, whatever the order of the
\* files was.
C18_AsStated ==
    (last.kind = "finished" /\ run.runs = 1) =>
       \A f, g \in last.scope :
          \A a \in BillOfDoc(DocPool[disk[f]]), b \in BillOfDoc(DocPool[disk[g]]) :
             (\E i \in 1..Len(DocPool[disk[f]].relatedbills) :
                 RefersTo(DocPool[disk[f]].relatedbills[i], b))
             => Related(a, b)

\* C18 amended: a reconciled document has a RelatedBill row to the bill a
\* reference names exactly when that bill was stored when the document was
\* reconciled (by an earlier file of the run, by an earlier run, or as the
\* document's own bill); the rows of the other bills stay as they are, so a
\* bill reconciled later in the run gets no row from a document reconciled
\* before it.
C18_RelatedWhenStored ==
    [][(run.phase = "bills" /\ last'.kind = "processed") =>
          /\ \A i \in 1..Len(DocPool[last'.doc].relatedbills) :
                \A b \in bills' :
                   RefersTo(DocPool[last'.doc].relatedbills[i], b) =>
                      ((b \in bills \/ b.id = last'.bill)
                       /\ \E x \in relatedbills' :
                             x.bill = last'.bill /\ x.related_bill = b.id)
          /\ \A x \in relatedbills' :
                x.bill = last'.bill =>
                   \E i \in 1..Len(DocPool[last'.doc].relatedbills), b \in bills' :
                      /\ b.id = x.related_bill
                      /\ RefersTo(DocPool[last'.doc].relatedbills[i], b)
          /\ {x \in relatedbills' : x.bill # last'.bill}
               = {x \in relatedbills : x.bill # last'.bill}]_vars

\* The first run has reached its end over two documents that refer to each
\* other: the one reconciled second has its row, the one reconciled first
\* has none.
C18_Witness ==
    /\ last.kind = "finished" /\ run.runs = 1
    /\ \E a, b \in bills :
          /\ a \in BillOfDoc(DocPool[disk["data/us/111/bills/h1.xml"]])
          /\ b \in BillOfDoc(DocPool[disk["data/us/110/bills/s2.xml"]])
          /\ Len(DocPool[disk["data/us/111/bills/h1.xml"]].relatedbills) > 0
          /\ Related(a, b) # Related(b, a)

\* The attributes of the document spell the bill its path names.
SpellsPath(fname) ==
    LET node == DocPool[disk[fname]]
        m == path_groups(fname)
    IN  /\ node.type # None /\ node.session # None /\ node.number # None
        /\ BillType_by_xml_code(node.type[1]) = BillType_by_xml_code(m.type)
        /\ int(node.session[1]) = int(m.congress)
        /\ int(node.number[1]) = int(m.number)

\* C19 as stated: when a run of main has reached its end, a Bill is stored
\* under the natural key of every bill file the run went through, the key
\* main looks the file up by.
C19_AsStated ==
    last.kind = "finished" => \A f \in last.scope : BillOfPath(f) # {}

\* C19 amended: when a run of main has reached its end, a Bill is stored
\* under the natural key of every bill file the run went through whose
\* document spells the key of its path; and an unchanged file (no force)
\* with no Bill stored under the key of its path is reconciled in full, not
\* skipped.
C19_GateNeverHidesMissingBill ==
    /\ [](last.kind = "finished" =>
             \A f \in last.scope : SpellsPath(f) => BillOfPath(f) # {})
    /\ [][(/\ run.phase = "bills" /\ last'.file \in BillFiles
           /\ last'.unchanged /\ ~run.force /\ BillOfPath(last'.file) = {}) =>
             /\ last'.kind # "skipped"
             /\ last'.kind = "processed" =>
                   (/\ HasOp(last'.effects, "File.save_file")
                    /\ \E b \in bills' : b.id = last'.bill)]_vars

\* An unchanged, recorded file whose document spells the key of its path
\* was reconciled without force, and its Bill was inserted: the Bill had
\* been deleted from the store.
C19_Witness ==
    /\ last.kind = "processed" /\ last.unchanged /\ ~last.force
    /\ SpellsPath(last.file)
    /\ \E i \in 1..Len(last.effects) :
          last.effects[i].op = "Bill.save" /\ last.effects[i].b = TRUE
    /\ BillOfPath(last.file) # {}
====
